---- MODULE Spec2Model ----
(***************************************************************************)
(* A model of fusionbox/behaviors.py: the MetaBehavior metaclass and the   *)
(* Behavior / QuerySetManagerModel class machinery, the Validation         *)
(* behavior's validation pipeline and the Publishable manager.             *)
(*                                                                         *)
(* The Django framework is the environment.  Where the code calls into it  *)
(* (ModelBase.__new__, add_to_class, full_clean, ValidationError,          *)
(* QuerySet.filter) the call is modelled by what Django 1.6-1.8 does,      *)
(* the versions this Python 2 code with get_queryset() runs on.            *)
(***************************************************************************)
EXTENDS Integers, Sequences, FiniteSets, TLC

VARIABLES
    chk,      \* the last call of the base-order check of MetaBehavior.__new__
    val,      \* one instance of a Validation model, its stored row, the last call
    pub,      \* the table of a Publishable model, the clock, the last query
    classes,  \* the model classes that exist, in creation order
    objs,     \* settings objects and inner QuerySet classes (a heap)
    res       \* the outcome of the last class statement

vars == <<chk, val, pub, classes, objs, res>>

\* ------------------------------------------------------------ helpers

InSeq(x, s) == \E i \in DOMAIN s : s[i] = x

EmptyDict == [k \in {} |-> <<>>]

Get(d, k) == IF k \in DOMAIN d THEN d[k] ELSE <<>>

\* ------------------------------------------------------------ bounds

MaxBases == 3
MaxParents == 2
MaxUserClasses == 2
NumFields == 2
MaxTime == 2
NumInstances == 2

\* ============================================================
\* MetaBehavior.__new__, lines 72-81: the order of the bases
\* ============================================================

\* __module__ of a class, by class name.
ModuleOf(k) ==
    CASE k \in {"EmptyObject", "Behavior", "QuerySetManagerModel", "Timestampable",
                "Publishable", "SEO", "Validation"} -> "fusionbox.behaviors"
      [] k = "Model" -> "django.db.models.base"
      [] k = "object" -> "__builtin__"
      [] OTHER -> "app.models"

\* A base as the loop reads it: issubclass(base, object), and base.mro().
BaseView(new, mro) == [newstyle |-> new, mro |-> mro]

\* Classes a class statement can name as bases.
BaseCatalog ==
    { BaseView(FALSE, <<"OldStyleMixin">>),
      BaseView(TRUE, <<"Mixin", "object">>),
      BaseView(TRUE, <<"Model", "object">>),
      BaseView(TRUE, <<"Article", "Model", "object">>),
      BaseView(TRUE, <<"Behavior", "Model", "object">>),
      BaseView(TRUE, <<"Timestampable", "Behavior", "Model", "object">>),
      BaseView(TRUE, <<"Post", "Timestampable", "Behavior", "Model", "object">>),
      BaseView(TRUE, <<"Marker", "EmptyObject", "object">>),
      BaseView(TRUE, <<"Tagged", "EmptyObject", "Model", "object">>) }

BaseSeqs == UNION { [1..k -> BaseCatalog] : k \in 1..MaxBases }

mro_modules(mro) == [j \in DOMAIN mro |-> ModuleOf(mro[j])]

\* A faulty variant: the module test of line 80 dropped.
RECURSIVE check_bases_no_module_test(_, _, _)
check_bases_no_module_test(bases, i, found) ==
    IF i > Len(bases) THEN "ok"
    ELSE IF ~bases[i].newstyle THEN check_bases_no_module_test(bases, i + 1, found)
    ELSE IF found /\ InSeq("Behavior", bases[i].mro) THEN "ImproperlyConfigured"
    ELSE check_bases_no_module_test(bases, i + 1,
            found \/ (~InSeq("Behavior", bases[i].mro) /\ InSeq("Model", bases[i].mro)))

\* The loop of lines 72-81 from base i on; found is found_django_meta_without_behavior.
RECURSIVE check_bases(_, _, _)
check_bases(bases, i, found) ==
    IF i > Len(bases) THEN "ok"
    ELSE IF ~bases[i].newstyle THEN check_bases(bases, i + 1, found)
    ELSE IF found /\ InSeq("Behavior", bases[i].mro) THEN "ImproperlyConfigured"
    ELSE IF ~InSeq("fusionbox.behaviors", mro_modules(bases[i].mro))
             /\ InSeq("Model", bases[i].mro)
         THEN check_bases(bases, i + 1, TRUE)
         ELSE check_bases(bases, i + 1, found)

\* No class statement is under way.
ChkIdle == chk = [bases |-> <<>>, outcome |-> "pending"]

\* A class statement with some bases is about to run.
ChkInit == \E bases \in BaseSeqs : chk = [bases |-> bases, outcome |-> "pending"]

\* A class statement whose metaclass is MetaBehavior, as far as line 81: the
\* exception leaves __new__ before ModelBase.__new__ (line 94) makes the class.
NewOnBases ==
    /\ chk.outcome = "pending"
    /\ chk' = [chk EXCEPT !.outcome = IF check_bases(chk.bases, 1, FALSE) = "ok"
                                      THEN "class" ELSE "ImproperlyConfigured"]
    /\ UNCHANGED <<val, pub, classes, objs, res>>

\* ============================================================
\* Validation, lines 376-456
\* ============================================================

NON_FIELD_ERRORS == "__all__"

FieldNames == <<"title", "body", "slug">>

\* self._meta.fields, in order.
meta_fields == SubSeq(FieldNames, 1, NumFields)

\* What a validation hook does when called: it is not defined on the model
\* (absent), returns (ok), or raises ValidationError with a message list or
\* with a dictionary.
Absent == [kind |-> "absent", msgs |-> <<>>, dict |-> EmptyDict]
Ok == [kind |-> "ok", msgs |-> <<>>, dict |-> EmptyDict]
ListError(m) == [kind |-> "list", msgs |-> m, dict |-> EmptyDict]
DictError(d) == [kind |-> "dict", msgs |-> <<>>, dict |-> d]

Raises(o) == o.kind \in {"list", "dict"}

\* models.Model.clean_fields: field errors, keyed by field name.
FrameworkOutcomes == {Ok, DictError("title" :> <<"required">>)}
\* validate(): a single message, a list, or a dictionary (lines 383-385).
ValidateOutcomes ==
    {Absent, Ok, ListError(<<"bad">>), DictError("title" :> <<"taken">>),
     DictError(EmptyDict)}
\* validate_<field>().
FieldOutcomes == {Absent, Ok, ListError(<<"invalid">>), DictError("body" :> <<"short">>)}
\* models.Model.clean.
CleanOutcomes == {Ok, ListError(<<"unclean">>)}

Hooks ==
    [cf : FrameworkOutcomes, validate : ValidateOutcomes,
     field : [1..NumFields -> FieldOutcomes], clean : CleanOutcomes,
     custom_full_clean : BOOLEAN]

Data == {"d1", "d2"}

\* ValidationError.update_error_dict (called at lines 410 and 418).
update_error_dict(e, errors) ==
    IF e.kind = "dict"
    THEN [k \in DOMAIN errors \cup DOMAIN e.dict |-> Get(errors, k) \o Get(e.dict, k)]
    ELSE [k \in DOMAIN errors \cup {NON_FIELD_ERRORS} |->
             IF k = NON_FIELD_ERRORS THEN Get(errors, k) \o e.msgs ELSE errors[k]]

\* errors.setdefault(k, []).extend(v), lines 429 and 431.
setdefault_extend(errors, k, v) ==
    [x \in DOMAIN errors \cup {k} |-> IF x = k THEN Get(errors, x) \o v ELSE errors[x]]

RECURSIVE merge_message_dict(_, _, _)
merge_message_dict(errors, d, keys) ==
    IF keys = {} THEN errors
    ELSE LET k == CHOOSE x \in keys : TRUE
         IN merge_message_dict(setdefault_extend(errors, k, d[k]), d, keys \ {k})

\* The state of one run of clean_fields: the errors so far, the calls made.
Run(errors, calls) == [errors |-> errors, calls |-> calls]

\* The loop of lines 422-431 from field i on.
RECURSIVE field_loop(_, _, _)
field_loop(h, i, r) ==
    IF i > Len(meta_fields) THEN r
    ELSE LET f == meta_fields[i]
             o == h.field[i]
             calls == IF o.kind = "absent" THEN r.calls
                      ELSE Append(r.calls, "validate_" \o f)
             errors == IF ~Raises(o) THEN r.errors
                       ELSE IF o.kind = "dict"
                            THEN merge_message_dict(r.errors, o.dict, DOMAIN o.dict)
                            ELSE setdefault_extend(r.errors, f, o.msgs)
         IN field_loop(h, i + 1, Run(errors, calls))

\* Lines 406-410: the framework's clean_fields.
framework_step(h) ==
    Run(IF Raises(h.cf) THEN update_error_dict(h.cf, EmptyDict) ELSE EmptyDict,
        <<"super.clean_fields">>)

\* Lines 414-418: validate(), if the model defines it.
validate_step(h, r) ==
    Run(IF Raises(h.validate) THEN update_error_dict(h.validate, r.errors) ELSE r.errors,
        IF h.validate.kind = "absent" THEN r.calls ELSE Append(r.calls, "validate"))

\* Lines 433-434: raise ValidationError(errors) if errors.
raise_if_errors(r) ==
    [calls |-> r.calls,
     raised |-> IF DOMAIN r.errors # {} THEN DictError(r.errors) ELSE Ok]

\* A faulty variant: the first ValidationError ends the run.
clean_fields_first_error(h) ==
    IF Raises(h.cf) THEN [calls |-> <<"super.clean_fields">>, raised |-> h.cf]
    ELSE IF Raises(h.validate)
         THEN [calls |-> <<"super.clean_fields", "validate">>, raised |-> h.validate]
         ELSE raise_if_errors(field_loop(h, 1, Run(EmptyDict,
                          <<"super.clean_fields">> \o
                          (IF h.validate.kind = "absent" THEN <<>> ELSE <<"validate">>))))

\* Validation.clean_fields, lines 400-434.
clean_fields(h) ==
    raise_if_errors(field_loop(h, 1, validate_step(h, framework_step(h))))

\* models.Model.full_clean (called at lines 437 and 451): clean_fields, then
\* clean, the errors of both in one dictionary.  A model may override it; the
\* override here raises a ValidationError that has no dictionary.
\* The rest of models.Model.full_clean once clean_fields has run: clean, and
\* the errors of both in one dictionary.
clean_after(h, cf) ==
    raise_if_errors(
        Run(IF Raises(h.clean)
            THEN update_error_dict(h.clean,
                     IF Raises(cf.raised) THEN update_error_dict(cf.raised, EmptyDict)
                     ELSE EmptyDict)
            ELSE IF Raises(cf.raised) THEN update_error_dict(cf.raised, EmptyDict)
                 ELSE EmptyDict,
            <<"full_clean">> \o cf.calls \o <<"clean">>))

full_clean(h) ==
    IF h.custom_full_clean
    THEN [calls |-> <<"full_clean">>, raised |-> ListError(<<"custom">>)]
    ELSE clean_after(h, clean_fields(h))

\* Line 438, reached when line 437 raised nothing.
super_save(fc) ==
    IF Raises(fc.raised)
    THEN [calls |-> fc.calls, raised |-> fc.raised, saved |-> FALSE]
    ELSE [calls |-> Append(fc.calls, "super.save"), raised |-> Ok, saved |-> TRUE]

\* The row written first, whatever the validation says.
super_save_first(fc) ==
    [calls |-> <<"super.save">> \o fc.calls, raised |-> fc.raised, saved |-> TRUE]

\* A faulty variant: the row is written before validation.
save_then_validate(h) == super_save_first(full_clean(h))

\* Validation.save, lines 436-438.
save(h) == super_save(full_clean(h))

\* Lines 452-456: the dictionary of a ValidationError.
error_dict(fc) ==
    [calls |-> fc.calls,
     ret |-> IF ~Raises(fc.raised) THEN EmptyDict
             ELSE IF fc.raised.kind = "dict" THEN fc.raised.dict
                  ELSE NON_FIELD_ERRORS :> fc.raised.msgs]

\* Only an error that has a dictionary is reported.
error_dict_only(fc) ==
    [calls |-> fc.calls,
     ret |-> IF fc.raised.kind = "dict" THEN fc.raised.dict ELSE EmptyDict]

\* A faulty variant: no NON_FIELD_ERRORS entry for an error without a dictionary.
validation_errors_dict_only(h) == error_dict_only(full_clean(h))

\* Validation.validation_errors, lines 446-456.
validation_errors(h) == error_dict(full_clean(h))

\* Line 444: not self.validation_errors().
not_errors(ve) == [calls |-> ve.calls, ret |-> (DOMAIN ve.ret = {})]

\* Validation.is_valid, lines 440-444.
is_valid(h) == not_errors(validation_errors(h))

Last(op, calls, raised, retDict, retBool, dbBefore) ==
    [op |-> op, calls |-> calls, raised |-> raised, retDict |-> retDict,
     retBool |-> retBool, dbBefore |-> dbBefore]

\* A model with no hooks of its own and an unsaved instance of it.
ValIdle ==
    val = [hooks |-> [cf |-> Ok, validate |-> Absent, field |-> [i \in 1..NumFields |-> Absent],
                      clean |-> Ok, custom_full_clean |-> FALSE],
           data |-> "d1", db |-> "none",
           last |-> Last("init", <<>>, Ok, EmptyDict, FALSE, "none")]

\* A model that inherits from Validation, with whatever hooks, and an
\* instance of it: unsaved, or built over a row stored earlier (by a bulk
\* operation, which does not go through save).
ValInit ==
    \E h \in Hooks, db \in {"none", "d0"} :
        val = [hooks |-> h, data |-> "d1", db |-> db,
               last |-> Last("init", <<>>, Ok, EmptyDict, FALSE, db)]

\* The program assigns an attribute of the instance that no hook looks at.
SetAttrs ==
    /\ \E d \in Data \ {val.data} :
          val' = [val EXCEPT !.data = d,
                             !.last = Last("setattr", <<>>, Ok, EmptyDict, FALSE, val.db)]
    /\ UNCHANGED <<chk, pub, classes, objs, res>>

CallSave ==
    /\ \E r \in {save(val.hooks)} :
          val' = [val EXCEPT !.db = IF r.saved THEN val.data ELSE val.db,
                             !.last = Last("save", r.calls, r.raised, EmptyDict, FALSE, val.db)]
    /\ UNCHANGED <<chk, pub, classes, objs, res>>

CallCleanFields ==
    /\ \E r \in {clean_fields(val.hooks)} :
          val' = [val EXCEPT !.last = Last("clean_fields", r.calls, r.raised, EmptyDict,
                                           FALSE, val.db)]
    /\ UNCHANGED <<chk, pub, classes, objs, res>>

CallValidationErrors ==
    /\ \E r \in {validation_errors(val.hooks)} :
          val' = [val EXCEPT !.last = Last("validation_errors", r.calls, Ok, r.ret,
                                           FALSE, val.db)]
    /\ UNCHANGED <<chk, pub, classes, objs, res>>

CallIsValid ==
    /\ \E r \in {is_valid(val.hooks)} :
          val' = [val EXCEPT !.last = Last("is_valid", r.calls, Ok, EmptyDict, r.ret,
                                           val.db)]
    /\ UNCHANGED <<chk, pub, classes, objs, res>>

\* ============================================================
\* Publishable and PublishableManager, lines 287-330
\* ============================================================

Times == 0..MaxTime
Ids == 1..NumInstances

NoRow == [exists |-> FALSE, is_published |-> FALSE, publish_at |-> 0]

\* now(), line 31: the clock's reading.
now == pub.clock

\* A faulty variant: the filter on is_published left out.
get_queryset_date_only(manager) ==
    IF manager = "published"
    THEN [manager |-> manager, is_published |-> {TRUE, FALSE}, publish_at__lte |-> now]
    ELSE [manager |-> manager, is_published |-> {TRUE, FALSE}, publish_at__lte |-> MaxTime]

\* The managers of lines 329-330.  PublishableManager.get_queryset, lines
\* 292-294: filter() calls the callable it is given, so the queryset holds the
\* time of this call.  models.Manager filters nothing.
get_queryset(manager) ==
    IF manager = "published"
    THEN [manager |-> manager, is_published |-> {TRUE}, publish_at__lte |-> now]
    ELSE [manager |-> manager, is_published |-> {TRUE, FALSE}, publish_at__lte |-> MaxTime]

\* The rows a queryset selects from the table when it is evaluated.
Fetch(qs, rows) ==
    { i \in Ids : /\ rows[i].exists
                  /\ rows[i].is_published \in qs.is_published
                  /\ rows[i].publish_at <= qs.publish_at__lte }

NoQuery == [manager |-> "none", is_published |-> {}, publish_at__lte |-> 0]

\* madeAt is the clock's reading when the last query was made.
PubInit ==
    pub = [clock |-> 0, rows |-> [i \in Ids |-> NoRow], qs |-> NoQuery, madeAt |-> 0,
           result |-> {}, op |-> "init"]

Tick ==
    /\ pub.clock < MaxTime
    /\ pub' = [pub EXCEPT !.clock = pub.clock + 1, !.op = "tick"]
    /\ UNCHANGED <<chk, val, classes, objs, res>>

\* An instance is saved; publish_at is given, or left to its default (line 326).
SaveInstance ==
    /\ \E i \in Ids, p \in BOOLEAN, t \in Times \cup {-1} :
          pub' = [pub EXCEPT !.rows[i] = [exists |-> TRUE, is_published |-> p,
                                          publish_at |-> IF t = -1 THEN now ELSE t],
                             !.op = "save"]
    /\ UNCHANGED <<chk, val, classes, objs, res>>

\* Model.published.all() or Model.objects.all(): the query is made.
MakeQuery ==
    /\ \E manager \in {"published", "objects"} :
          pub' = [pub EXCEPT !.qs = get_queryset(manager), !.madeAt = pub.clock,
                             !.op = "query"]
    /\ UNCHANGED <<chk, val, classes, objs, res>>

\* The queryset is evaluated against the table.
Evaluate ==
    /\ pub.qs.manager # "none"
    /\ pub' = [pub EXCEPT !.result = Fetch(pub.qs, pub.rows), !.op = "evaluate"]
    /\ UNCHANGED <<chk, val, classes, objs, res>>

\* ============================================================
\* Python's classes
\* ============================================================

\* What getattr gives when it raises AttributeError (or its default, False).
NoAttr == "<AttributeError>"

Remove(x, s) == SelectSeq(s, LAMBDA y : y # x)

InTail(x, s) == \E i \in 2..Len(s) : s[i] = x

\* The C3 merge of type.__new__: [ok, mro]; not ok is Python's TypeError.
RECURSIVE c3_merge(_)
c3_merge(lists) ==
    LET ne == SelectSeq(lists, LAMBDA l : l # <<>>)
    IN IF ne = <<>> THEN [ok |-> TRUE, mro |-> <<>>]
       ELSE LET heads == { i \in DOMAIN ne : \A j \in DOMAIN ne : ~InTail(ne[i][1], ne[j]) }
            IN IF heads = {} THEN [ok |-> FALSE, mro |-> <<>>]
               ELSE LET i == CHOOSE x \in heads : \A y \in heads : x <= y
                        h == ne[i][1]
                        rest == c3_merge([k \in DOMAIN ne |-> Remove(h, ne[k])])
                    IN [ok |-> rest.ok, mro |-> <<h>> \o rest.mro]

\* The first of the places of an mro that have a name.
FirstIn(found) == CHOOSE i \in found : \A j \in found : i <= j

\* ---- the heap of settings objects and inner QuerySet classes
\* kind: "object" (the builtin), "new" and "classic" (classes), "empty" (an
\* instance of EmptyObject, lines 42-44: false in a boolean context).
Obj(kind, name, bases, mro, dict) ==
    [kind |-> kind, name |-> name, bases |-> bases, mro |-> mro, dict |-> dict]

ObjectId == 1
DjangoQuerySetId == 2

InitObjs ==
    << Obj("object", "object", <<>>, <<ObjectId>>, EmptyDict),
       Obj("new", "QuerySet", <<ObjectId>>, <<DjangoQuerySetId, ObjectId>>,
           "filter" :> "django") >>

\* bool(x) of line 188 and line 252; 0 stands for getattr's default, False.
truthy(os, id) == id # 0 /\ os[id].kind # "empty"

\* getattr(obj, name) on a settings object or an inner class.
obj_getattr(os, id, name) ==
    IF os[id].kind = "empty"
    THEN IF name \in DOMAIN os[id].dict THEN os[id].dict[name] ELSE NoAttr
    ELSE LET mro == os[id].mro
             found == { i \in DOMAIN mro : name \in DOMAIN os[mro[i]].dict }
         IN IF found = {} THEN NoAttr ELSE os[mro[FirstIn(found)]].dict[name]

\* A class statement inside a class body: class <name>(<bases>): <dict>.
body_class(os, kind, name, bases, dict) ==
    LET id == Len(os) + 1
        m == c3_merge([i \in DOMAIN bases |-> os[bases[i]].mro] \o <<bases>>)
    IN Append(os, Obj(kind, name, bases, <<id>> \o m.mro, dict))

\* type(name, bases, {}), lines 191, 193 and 255: [ok, os, id].
type_new(os, name, bases) ==
    LET id == Len(os) + 1
        m == c3_merge([i \in DOMAIN bases |-> os[bases[i]].mro] \o <<bases>>)
        ok == /\ \E i \in DOMAIN bases : os[bases[i]].kind # "classic"
              /\ m.ok
    IN [ok |-> ok, id |-> id,
        os |-> IF ok THEN Append(os, Obj("new", name, bases, <<id>> \o m.mro, EmptyDict))
               ELSE os]

\* ---- model classes
\* meta: made by MetaBehavior.  settings: the names of __dict__ bound to
\* settings objects.  QuerySet: the inner QuerySet class, 0 for none.  attrs:
\* the other names of __dict__.  fields: _meta.local_fields, each with the
\* behavior and the declared name it is a copy of.  body: what the class
\* statement wrote.
ModelId == 1
BehaviorId == 2

Body(abstract, proxy, fields, inner, qsbase, qs, attrs) ==
    [abstract |-> abstract, proxy |-> proxy, fields |-> fields, inner |-> inner,
     qsbase |-> qsbase, qs |-> qs, attrs |-> attrs]

Class(name, bases, mro, meta, abstract, proxy, declared, settings, qs, attrs, body) ==
    [name |-> name, bases |-> bases, mro |-> mro, meta |-> meta, abstract |-> abstract,
     proxy |-> proxy, declared_fields |-> declared, settings |-> settings,
     QuerySet |-> qs, attrs |-> attrs, fields |-> <<>>, body |-> body]

\* The names of cls.__dict__.
dict_names(c) ==
    DOMAIN c.settings \cup c.attrs
        \cup (IF c.QuerySet # 0 THEN {"QuerySet"} ELSE {})
        \cup (IF c.meta THEN {"declared_fields"} ELSE {})

\* hasattr(cls, name).
class_hasattr(cs, id, name) == \E i \in DOMAIN cs[id].mro : name \in dict_names(cs[cs[id].mro[i]])

\* getattr(cls, behavior, False) where the attribute is a settings object.
class_setting(cs, id, name) ==
    LET mro == cs[id].mro
        found == { i \in DOMAIN mro : name \in DOMAIN cs[mro[i]].settings }
    IN IF found = {} THEN 0 ELSE cs[mro[FirstIn(found)]].settings[name]

\* getattr(cls, 'QuerySet', False).
class_queryset(cs, id) ==
    LET mro == cs[id].mro
        found == { i \in DOMAIN mro : cs[mro[i]].QuerySet # 0 }
    IN IF found = {} THEN 0 ELSE cs[mro[FirstIn(found)]].QuerySet

\* The names of the fields the module declares, in source order.
FieldOrder ==
    <<"created_at", "updated_at", "publish_at", "is_published", "seo_title",
      "seo_description", "seo_keywords">>

Reverse(s) == [i \in DOMAIN s |-> s[Len(s) + 1 - i]]

\* declared_fields.iteritems(), line 164: a dict is walked in an order the
\* program does not choose; forward stands for one order, its reverse for
\* another.
iteritems(d, forward) ==
    SelectSeq(IF forward THEN FieldOrder ELSE Reverse(FieldOrder), LAMBDA f : f \in DOMAIN d)

\* A state of the class machinery while one class statement runs.
St(ok, cs, os) == [ok |-> ok, cs |-> cs, os |-> os]

\* ============================================================
\* Behavior, lines 106-201
\* ============================================================

\* Behavior.base_behaviors, lines 195-201, as names (line 183).
base_behaviors(cs, n) ==
    LET mro == cs[n].mro
        with == SelectSeq(mro, LAMBDA c : class_hasattr(cs, c, cs[c].name))
    IN [i \in DOMAIN with |-> cs[with[i]].name]

\* Line 185: the attribute of each direct base, 0 (False) when it has none.
base_settings(cs, n, behavior) ==
    [j \in DOMAIN cs[n].bases |-> class_setting(cs, cs[n].bases[j], behavior)]

\* Lines 185-188: the settings of the class body, then those of the bases,
\* the false ones left out.
parent_settings(st, n, behavior) ==
    SelectSeq((IF behavior \in DOMAIN st.cs[n].settings
               THEN <<st.cs[n].settings[behavior]>> ELSE <<>>)
              \o base_settings(st.cs, n, behavior),
              LAMBDA x : truthy(st.os, x))

\* The settings of the class body after those of the bases.
parent_settings_own_last(st, n, behavior) ==
    SelectSeq(base_settings(st.cs, n, behavior)
              \o (IF behavior \in DOMAIN st.cs[n].settings
                  THEN <<st.cs[n].settings[behavior]>> ELSE <<>>),
              LAMBDA x : truthy(st.os, x))

\* Lines 190-193: type() over the list, and over the list and object when
\* that raises TypeError.
type_or_object(os, behavior, settings) ==
    IF type_new(os, behavior, settings).ok THEN type_new(os, behavior, settings)
    ELSE type_new(os, behavior, settings \o <<ObjectId>>)

\* setattr(cls, behavior, t), lines 191 and 193.
set_settings(st, n, behavior, t) ==
    IF ~t.ok THEN St(FALSE, st.cs, st.os)
    ELSE St(TRUE, [st.cs EXCEPT ![n].settings = (behavior :> t.id) @@ @], t.os)

\* Lines 189-193.
merge_settings(st, n, behavior, settings) ==
    IF settings = <<>> THEN st
    ELSE set_settings(st, n, behavior, type_or_object(st.os, behavior, settings))

\* A faulty variant: the settings of the class body come last, not first.
merge_one_own_last(st, n, behavior) ==
    merge_settings(st, n, behavior, parent_settings_own_last(st, n, behavior))

\* One turn of the loop of lines 184-193.
merge_one(st, n, behavior) ==
    merge_settings(st, n, behavior, parent_settings(st, n, behavior))

RECURSIVE merge_loop(_, _, _, _)
merge_loop(st, n, behaviors, i) ==
    IF ~st.ok \/ i > Len(behaviors) THEN st
    ELSE merge_loop(merge_one(st, n, behaviors[i]), n, behaviors, i + 1)

\* Behavior.merge_parent_settings, lines 176-193.
merge_parent_settings(st, n) == merge_loop(st, n, base_behaviors(st.cs, n), 1)

\* Lines 165-166: an EmptyObject for the class when it has no attribute of
\* the behavior's name.
ensure_settings(st, n, pname) ==
    IF class_hasattr(st.cs, n, pname) THEN st
    ELSE St(TRUE, [st.cs EXCEPT ![n].settings = (pname :> (Len(st.os) + 1)) @@ @],
            Append(st.os, Obj("empty", "EmptyObject", <<>>, <<Len(st.os) + 1>>, EmptyDict)))

\* Line 168: getattr(getattr(cls, parent.__name__), name), NoAttr for the
\* AttributeError of line 169.
setting_of(st, n, pname, name) == obj_getattr(st.os, class_setting(st.cs, n, pname), name)

\* Lines 170-172: the default name, written into the behavior's own settings.
record_default(st, parent, name) ==
    St(TRUE, st.cs,
       [st.os EXCEPT ![class_setting(st.cs, parent, st.cs[parent].name)].dict =
                        (name :> name) @@ @])

\* Line 174: cls.add_to_class(new_name, copy.copy(field)); the field binds
\* its name on the class when it installs a descriptor.
add_to_class(st, n, parent, name, new_name) ==
    St(TRUE,
       [st.cs EXCEPT
          ![n].fields = Append(@, [name |-> new_name, behavior |-> st.cs[parent].name,
                                   declared |-> name,
                                   kind |-> st.cs[parent].declared_fields[name]]),
          ![n].attrs = IF st.cs[parent].declared_fields[name] = "descriptor"
                       THEN @ \cup {new_name} ELSE @],
       st.os)

\* Lines 173-174.
add_unless_taken(st, n, parent, name, new_name) ==
    IF class_hasattr(st.cs, n, new_name) THEN st
    ELSE add_to_class(st, n, parent, name, new_name)

\* Lines 167-174 with the name found at line 168.
add_named(st, n, parent, name, found) ==
    IF found = NoAttr
    THEN add_unless_taken(record_default(st, parent, name), n, parent, name, name)
    ELSE add_unless_taken(st, n, parent, name, found)

\* Lines 167-174 without the test of line 173.
add_named_always(st, n, parent, name, found) ==
    IF found = NoAttr
    THEN add_to_class(record_default(st, parent, name), n, parent, name, name)
    ELSE add_to_class(st, n, parent, name, found)

\* Lines 167-174 once the class has its settings attribute.
add_with_settings(st, n, parent, name) ==
    add_named(st, n, parent, name, setting_of(st, n, st.cs[parent].name, name))

add_with_settings_always(st, n, parent, name) ==
    add_named_always(st, n, parent, name, setting_of(st, n, st.cs[parent].name, name))

\* A faulty variant: the field is added whether or not the class has the name.
add_field_always(st, n, parent, name) ==
    add_with_settings_always(ensure_settings(st, n, st.cs[parent].name), n, parent, name)

\* One turn of the inner loop of modify_schema, lines 164-174.
add_field(st, n, parent, name) ==
    add_with_settings(ensure_settings(st, n, st.cs[parent].name), n, parent, name)

RECURSIVE fields_loop(_, _, _, _, _)
fields_loop(st, n, parent, names, j) ==
    IF j > Len(names) THEN st
    ELSE fields_loop(add_field(st, n, parent, names[j]), n, parent, names, j + 1)

\* The loop of lines 154-174 from place i of the mro on.
RECURSIVE schema_loop(_, _, _, _)
schema_loop(st, n, forward, i) ==
    IF i > Len(st.cs[n].mro) THEN st
    ELSE IF st.cs[n].proxy \/ ~st.cs[st.cs[n].mro[i]].meta
    THEN schema_loop(st, n, forward, i + 1)
    ELSE schema_loop(
            fields_loop(st, n, st.cs[n].mro[i],
                        iteritems(st.cs[st.cs[n].mro[i]].declared_fields, forward), 1),
            n, forward, i + 1)

\* Behavior.modify_schema, lines 146-174.
modify_schema(st, n, forward) == schema_loop(st, n, forward, 1)

\* ============================================================
\* QuerySetManagerModel, lines 204-259
\* ============================================================

\* Line 247: the QuerySet of each direct base, 0 (False) when it has none.
base_querysets(cs, n) ==
    [j \in DOMAIN cs[n].bases |-> class_queryset(cs, cs[n].bases[j])]

\* Lines 247-252.
querysets(st, n) ==
    SelectSeq((IF st.cs[n].QuerySet # 0 THEN <<st.cs[n].QuerySet>> ELSE <<>>)
              \o base_querysets(st.cs, n),
              LAMBDA x : truthy(st.os, x))

\* The QuerySet classes of the bases alone.
querysets_parents_only(st, n) ==
    SelectSeq(base_querysets(st.cs, n), LAMBDA x : truthy(st.os, x))

\* Line 255: cls.QuerySet = t.
set_queryset(st, n, t) ==
    IF ~t.ok THEN St(FALSE, st.cs, st.os)
    ELSE St(TRUE, [st.cs EXCEPT ![n].QuerySet = t.id], t.os)

\* Lines 253-255.
merge_queryset_list(st, n, list) ==
    IF list = <<>> THEN st ELSE set_queryset(st, n, type_new(st.os, "QuerySet", list))

\* A faulty variant: the QuerySet of the class body is left out of the merge.
merge_querysets_parents_only(st, n) == merge_queryset_list(st, n, querysets_parents_only(st, n))

\* Lines 247-255.
merge_querysets(st, n) == merge_queryset_list(st, n, querysets(st, n))

\* Lines 257-259.
then_merge_settings(st, n) ==
    IF ~st.ok \/ st.cs[n].name = "QuerySetManagerModel" THEN st
    ELSE merge_parent_settings(st, n)

\* QuerySetManagerModel.merge_parent_settings, lines 240-259.
qsmm_merge_parent_settings(st, n) == then_merge_settings(merge_querysets(st, n), n)

\* ============================================================
\* MetaBehavior, lines 47-103
\* ============================================================

IsQuerySetManagerModel(cs, id) ==
    \E i \in DOMAIN cs[id].mro : cs[cs[id].mro[i]].name = "QuerySetManagerModel"

\* The bases of a class statement as the loop of lines 73-81 reads them.
base_views(cs, bases) ==
    [j \in DOMAIN bases |->
        BaseView(TRUE, [k \in DOMAIN cs[bases[j]].mro |-> cs[cs[bases[j]].mro[k]].name]
                       \o <<"object">>)]

\* The inner classes a class body defines, made before the metaclass runs:
\* one settings class (class <behavior>: ...) for each name of body.inner,
\* and class QuerySet(<qsbase>) when body.qs has methods.
RECURSIVE body_settings(_, _, _, _)
body_settings(os, inner, names, acc) ==
    IF names = {} THEN [os |-> os, settings |-> acc]
    ELSE LET b == CHOOSE x \in names : TRUE
         IN body_settings(body_class(os, "classic", b, <<>>, inner[b]), inner,
                          names \ {b}, (b :> Len(os) + 1) @@ acc)

\* ModelBase.__new__ refuses a proxy model that has not exactly one base that
\* is not abstract.
proxy_ok(cs, bases, body) ==
    body.proxy =>
        /\ ~body.abstract
        /\ Cardinality({j \in DOMAIN bases : ~cs[bases[j]].abstract}) = 1

\* class QuerySet(<qsbase>) of the class body, when it has one.
body_queryset(bs, name, body) ==
    IF body.qsbase = 0 THEN bs
    ELSE [os |-> body_class(bs.os, "new", "QuerySet", <<body.qsbase>>,
                            [x \in body.qs |-> name]),
          settings |-> bs.settings]

\* The mro ModelBase.__new__ gives the class, <<>> when there is none.
class_mro(cs, bases) ==
    IF c3_merge([j \in DOMAIN bases |-> cs[bases[j]].mro] \o <<bases>>).ok
    THEN <<Len(cs) + 1>>
         \o c3_merge([j \in DOMAIN bases |-> cs[bases[j]].mro] \o <<bases>>).mro
    ELSE <<>>

\* Lines 83-94: the declared fields are taken out of the body of an abstract
\* class, and ModelBase.__new__ makes the class.
super_new(r, bs, name, bases, body) ==
    St(class_mro(r.cs, bases) # <<>> /\ proxy_ok(r.cs, bases, body),
       Append(r.cs, Class(name, bases, class_mro(r.cs, bases), TRUE, body.abstract,
                          body.proxy, IF body.abstract THEN body.fields ELSE EmptyDict,
                          bs.settings, IF body.qsbase = 0 THEN 0 ELSE Len(bs.os),
                          body.attrs, body)),
       bs.os)

\* Line 95: new_class.merge_parent_settings().
call_merge_parent_settings(st, n) ==
    IF ~st.ok THEN st
    ELSE IF IsQuerySetManagerModel(st.cs, n) THEN qsmm_merge_parent_settings(st, n)
    ELSE merge_parent_settings(st, n)

\* Lines 96-101.
schema_or_placeholder(st, n, forward) ==
    IF ~st.ok THEN st
    ELSE IF ~st.cs[n].abstract THEN modify_schema(st, n, forward)
    ELSE ensure_settings(st, n, st.cs[n].name)

\* Line 103, or the exception that left __new__.
new_result(r, st) ==
    IF st.ok THEN [outcome |-> "class", cs |-> st.cs, os |-> st.os]
    ELSE [outcome |-> "TypeError", cs |-> r.cs, os |-> r.os]

\* MetaBehavior.__new__, lines 51-103, for class <name>(<bases>): <body>,
\* on the classes and objects of r.  The result is [outcome, cs, os]: the
\* class is the last of cs.
MetaBehavior_new(r, name, bases, body, forward) ==
    IF check_bases(base_views(r.cs, bases), 1, FALSE) # "ok"
    THEN [outcome |-> "ImproperlyConfigured", cs |-> r.cs, os |-> r.os]
    ELSE new_result(r,
            schema_or_placeholder(
                call_merge_parent_settings(
                    super_new(r,
                        body_queryset(
                            body_settings(r.os, body.inner, DOMAIN body.inner, EmptyDict),
                            name, body),
                        name, bases, body),
                    Len(r.cs) + 1),
                Len(r.cs) + 1, forward))

\* ============================================================
\* the module, and the class statements of a program that uses it
\* ============================================================

NoQuerySet == 0

\* django.db.models.Model.
ModelClass ==
    Class("Model", <<>>, <<ModelId>>, FALSE, FALSE, FALSE, EmptyDict, EmptyDict,
          NoQuerySet, {"save", "delete", "full_clean", "clean", "clean_fields", "pk"},
          Body(FALSE, FALSE, EmptyDict, EmptyDict, NoQuerySet, {}, {}))

Fields(names, kind) == [f \in names |-> kind]

\* A class statement of fusionbox/behaviors.py: class <name>(<bases>) with
\* Meta.abstract.
module_class(r, name, bases, fields, qsbase, attrs) ==
    MetaBehavior_new(r, name, bases,
                     Body(TRUE, FALSE, fields, EmptyDict, qsbase, {}, attrs), TRUE)

\* The class statements of fusionbox/behaviors.py, run in source order:
\* Behavior (lines 106-144), QuerySetManagerModel (204-238), Timestampable
\* (265-284), Publishable (297-330), SEO (333-373), Validation (376-456).
\* kind tells whether a plain column field binds its name on the class
\* (Django 1.10 on) or not.
ModuleClasses(kind) ==
    module_class(
     module_class(
      module_class(
       module_class(
        module_class(
         module_class([cs |-> <<ModelClass>>, os |-> InitObjs],
            "Behavior", <<ModelId>>, EmptyDict, NoQuerySet,
            {"modify_schema", "merge_parent_settings", "base_behaviors"}),
         "QuerySetManagerModel", <<BehaviorId>>, EmptyDict, DjangoQuerySetId,
         {"objects", "merge_parent_settings"}),
        "Timestampable", <<BehaviorId>>, Fields({"created_at", "updated_at"}, kind),
        NoQuerySet, {}),
       "Publishable", <<BehaviorId>>, Fields({"publish_at", "is_published"}, kind),
       NoQuerySet, {"objects", "published"}),
      "SEO", <<BehaviorId>>, Fields({"seo_title", "seo_description", "seo_keywords"}, kind),
      NoQuerySet, {"formatted_seo_data"}),
     "Validation", <<BehaviorId>>, EmptyDict, NoQuerySet,
     {"clean_fields", "save", "is_valid", "validation_errors"})

QuerySetManagerModelId == 3
TimestampableId == 4
NumModuleClasses == 7

\* class Parent(models.Model) with an inner class QuerySet(QuerySet) that has
\* get_active (the docstring of lines 212-217): made by ModelBase alone.
plain_model(r, name, bases, qsbase, methods) ==
    [cs |-> Append(r.cs, Class(name, bases, class_mro(r.cs, bases), FALSE, FALSE, FALSE,
                               EmptyDict, EmptyDict, Len(r.os) + 1, {},
                               Body(FALSE, FALSE, EmptyDict, EmptyDict, qsbase, methods, {}))),
     os |-> body_class(r.os, "new", "QuerySet", <<qsbase>>, [x \in methods |-> name])]

FieldKinds == {"plain", "descriptor"}

UserNames == <<"Alpha", "Beta", "Gamma", "Delta">>

NoStatement == [outcome |-> "init", name |-> "", bases |-> <<>>]

\* fusionbox.behaviors is not imported.
MetaIdle == classes = <<>> /\ objs = <<>> /\ res = NoStatement

\* The program's classes once fusionbox.behaviors is imported and Parent is
\* defined.
MetaInit ==
    \E kind \in FieldKinds :
    \E p \in {plain_model(ModuleClasses(kind), "Parent", <<ModelId>>, DjangoQuerySetId,
                          {"get_active"})} :
        classes = p.cs /\ objs = p.os /\ res = NoStatement

ParentId == 8
NumInitClasses == NumModuleClasses + 1

IsAncestor(cs, a, b) == a # b /\ InSeq(a, cs[b].mro)

\* Bases of a class statement: at most MaxParents existing classes of the
\* pool, one of them made by MetaBehavior (so that the metaclass is
\* MetaBehavior), none an ancestor of another.
BaseChoices(pool) ==
    { bases \in UNION { [1..k -> pool] : k \in 1..MaxParents } :
        /\ \E j \in DOMAIN bases : classes[bases[j]].meta
        /\ \A i, j \in DOMAIN bases :
              i # j => bases[i] # bases[j] /\ ~IsAncestor(classes, bases[i], bases[j]) }

UserClasses == (NumInitClasses + 1)..Len(classes)

\* The behaviors among the bases' ancestors that declare field f.
Declaring(bases, f) ==
    { classes[c].name : c \in { c \in DOMAIN classes :
        /\ f \in DOMAIN classes[c].declared_fields
        /\ \E j \in DOMAIN bases : InSeq(c, classes[bases[j]].mro) } }

NewNames == {"made_at", "updated_at"}

\* The settings classes a body may write: none, or one that renames
\* created_at for one behavior that declares it.
InnerChoices(bases) ==
    {EmptyDict} \cup
    { b :> ("created_at" :> n) : b \in Declaring(bases, "created_at"), n \in NewNames }

\* The name of the next class the program defines.
NextName == UserNames[Len(classes) - NumInitClasses + 1]

\* A class statement of the program runs; an exception ends the program.
Statement(bases, body, forward) ==
    /\ res.outcome \in {"init", "class"}
    /\ Len(classes) < NumInitClasses + MaxUserClasses
    /\ \E r \in {MetaBehavior_new([cs |-> classes, os |-> objs], NextName, bases, body,
                                   forward)} :
          /\ classes' = r.cs
          /\ objs' = r.os
          /\ res' = [outcome |-> r.outcome, name |-> NextName, bases |-> bases]
    /\ UNCHANGED <<chk, val, pub>>

\* class <name>(<behaviors>) with Meta.abstract, with or without a field.
AbstractBehaviorStatement ==
    \E bases \in BaseChoices({BehaviorId, TimestampableId} \cup UserClasses) :
    \E kind \in FieldKinds :
    \E names \in {{}, {"created_at"}} :
    \E inner \in InnerChoices(bases) :
        /\ \A c \in DOMAIN classes : \A f \in DOMAIN classes[c].declared_fields :
              classes[c].declared_fields[f] = kind
        /\ Statement(bases, Body(TRUE, FALSE, Fields(names, kind), inner, NoQuerySet, {}, {}),
                     TRUE)

\* class <name>(<behaviors>): a model, or a proxy of one.
ModelStatement ==
    \E bases \in BaseChoices({BehaviorId, TimestampableId} \cup UserClasses) :
    \E proxy \in BOOLEAN :
    \E inner \in InnerChoices(bases) :
    \E forward \in BOOLEAN :
        Statement(bases, Body(FALSE, proxy, EmptyDict, inner, NoQuerySet, {}, {}), forward)

QuerySetMethods == {"filter", "get_active", "get_inactive"}

\* The inner QuerySet a body may write: none, or class QuerySet(<base>) with
\* get_inactive, and perhaps its own get_active, where <base> is Django's
\* QuerySet or the QuerySet of one of the bases.
QuerySetChoices(bases) ==
    {[qsbase |-> NoQuerySet, qs |-> {}]} \cup
    { [qsbase |-> b, qs |-> ms] :
        b \in {DjangoQuerySetId}
              \cup ({ class_queryset(classes, bases[j]) : j \in DOMAIN bases } \ {0}),
        ms \in {{"get_inactive"}, {"get_inactive", "get_active"}} }

\* class <name>(QuerySetManagerModel, ...), abstract or not.
QuerySetModelStatement ==
    \E bases \in BaseChoices({QuerySetManagerModelId, ParentId} \cup UserClasses) :
    \E abstract \in BOOLEAN :
    \E q \in QuerySetChoices(bases) :
        Statement(bases, Body(abstract, FALSE, EmptyDict, EmptyDict, q.qsbase, q.qs, {}), TRUE)

\* class <name>(<Parent>) with class QuerySet(<Parent>.QuerySet), the first
\* form of the docstring (lines 221-224): no class of this module is a base,
\* so ModelBase alone makes the class.
PlainChildStatement ==
    /\ res.outcome \in {"init", "class"}
    /\ Len(classes) < NumInitClasses + MaxUserClasses
    /\ \E parent \in { c \in DOMAIN classes : ~classes[c].meta /\ classes[c].QuerySet # 0 } :
       \E ms \in {{"get_inactive"}, {"get_inactive", "get_active"}} :
       \E r \in {plain_model([cs |-> classes, os |-> objs], NextName, <<parent>>,
                              classes[parent].QuerySet, ms)} :
          /\ classes' = r.cs
          /\ objs' = r.os
          /\ res' = [outcome |-> "class", name |-> NextName, bases |-> <<parent>>]
    /\ UNCHANGED <<chk, val, pub>>

\* ============================================================
\* claims
\* ============================================================

DjangoModelWithoutBehaviors(b) ==
    /\ b.newstyle
    /\ InSeq("Model", b.mro)
    /\ \A j \in DOMAIN b.mro : ModuleOf(b.mro[j]) # "fusionbox.behaviors"

HasBehavior(b) == b.newstyle /\ InSeq("Behavior", b.mro)

\* C2: MetaBehavior.__new__ raises ImproperlyConfigured, and makes no class,
\* exactly when some base that derives from models.Model with no class of the
\* behaviors module in its mro is followed, later in the bases, by a base that
\* has Behavior in its mro.
C2_BaseOrder ==
    chk.outcome # "pending" =>
        (chk.outcome = "ImproperlyConfigured" <=>
            \E i, j \in DOMAIN chk.bases :
                /\ i < j
                /\ DjangoModelWithoutBehaviors(chk.bases[i])
                /\ HasBehavior(chk.bases[j]))

C2_Witness ==
    /\ chk.outcome = "ImproperlyConfigured"
    /\ Len(chk.bases) = 3
    /\ DjangoModelWithoutBehaviors(chk.bases[1])
    /\ ~chk.bases[2].newstyle
    /\ HasBehavior(chk.bases[3])

Count(x, s) == Cardinality({i \in DOMAIN s : s[i] = x})

\* C3: save() runs full_clean() first; when full_clean raises, the error
\* reaches the caller unchanged, the underlying save is not called and the
\* stored row is what it was; otherwise the underlying save runs, once, after
\* full_clean.
C3_SaveValidatesFirst ==
    val.last.op = "save" =>
        LET fc == full_clean(val.hooks)
            calls == val.last.calls
        IN /\ calls # <<>>
           /\ calls[1] = "full_clean"
           /\ Raises(fc.raised) =>
                 /\ val.last.raised = fc.raised
                 /\ Count("super.save", calls) = 0
                 /\ val.db = val.last.dbBefore
           /\ ~Raises(fc.raised) =>
                 /\ val.last.raised = Ok
                 /\ Count("super.save", calls) = 1
                 /\ calls[Len(calls)] = "super.save"
                 /\ val.db = val.data

C3_Witness ==
    /\ val.last.op = "save"
    /\ Raises(val.last.raised)
    /\ val.db # "none"
    /\ val.db # val.data

\* The steps of clean_fields, in the order of the code.
Steps(h) == <<h.cf, h.validate>> \o [i \in 1..NumFields |-> h.field[i]]

\* The key a ValidationError without a dictionary is filed under at step i.
ListKey(i) == IF i <= 2 THEN NON_FIELD_ERRORS ELSE meta_fields[i - 2]

\* What step i adds to the errors of key k.
Contribution(h, i, k) ==
    LET o == Steps(h)[i]
    IN IF o.kind = "dict" THEN Get(o.dict, k)
       ELSE IF o.kind = "list" /\ k = ListKey(i) THEN o.msgs
       ELSE <<>>

RECURSIVE Collected(_, _, _)
Collected(h, i, k) ==
    IF i = 0 THEN <<>> ELSE Collected(h, i - 1, k) \o Contribution(h, i, k)

ErrorKeys(h) ==
    UNION { IF Steps(h)[i].kind = "dict" THEN DOMAIN Steps(h)[i].dict
            ELSE IF Steps(h)[i].kind = "list" THEN {ListKey(i)}
            ELSE {} : i \in DOMAIN Steps(h) }

StepName(i) ==
    IF i = 1 THEN "super.clean_fields"
    ELSE IF i = 2 THEN "validate"
    ELSE "validate_" \o meta_fields[i - 2]

ExpectedCalls(h) ==
    LET defined == SelectSeq([i \in DOMAIN Steps(h) |-> i],
                             LAMBDA i : Steps(h)[i].kind # "absent")
    IN [j \in DOMAIN defined |-> StepName(defined[j])]

\* C4 as claimed: clean_fields raises if and only if at least one step raised.
C4_RaisesIffAStepRaised ==
    val.last.op = "clean_fields" =>
        (Raises(val.last.raised) <=>
            \E i \in DOMAIN Steps(val.hooks) : Raises(Steps(val.hooks)[i]))

\* C4 as amended: clean_fields runs every step that is defined, in order,
\* whatever the earlier steps raised; a ValidationError without a dictionary
\* raised by validate_<field> goes to that field's list, one with a dictionary
\* is merged key by key; it raises one ValidationError with every collected
\* error if and only if the collected dictionary has a key.
C4_Aggregates ==
    val.last.op = "clean_fields" =>
        LET h == val.hooks
        IN /\ val.last.calls = ExpectedCalls(h)
           /\ Raises(val.last.raised) <=> ErrorKeys(h) # {}
           /\ Raises(val.last.raised) =>
                 /\ val.last.raised.kind = "dict"
                 /\ DOMAIN val.last.raised.dict = ErrorKeys(h)
                 /\ \A k \in ErrorKeys(h) :
                       val.last.raised.dict[k] = Collected(h, Len(Steps(h)), k)

C4_Witness ==
    /\ val.last.op = "clean_fields"
    /\ Raises(val.hooks.cf)
    /\ val.hooks.validate.kind = "list"
    /\ val.hooks.field[1].kind = "list"
    /\ val.hooks.field[2].kind = "dict"
    /\ Raises(val.last.raised)
    /\ Len(val.last.raised.dict["title"]) = 2

C5_PublishedManager ==
    pub.op = "evaluate" =>
        /\ pub.qs.manager = "published" =>
              pub.result = { i \in Ids : /\ pub.rows[i].exists
                                         /\ pub.rows[i].is_published
                                         /\ pub.rows[i].publish_at <= pub.madeAt }
        /\ pub.qs.manager = "objects" =>
              pub.result = { i \in Ids : pub.rows[i].exists }

\* An instance saved for a later date, published by the clock alone.
C5_Witness ==
    /\ pub.op = "evaluate"
    /\ pub.qs.manager = "published"
    /\ \E i \in pub.result : pub.rows[i].publish_at = pub.madeAt /\ pub.madeAt > 0
    /\ \E i \in Ids \ pub.result :
          pub.rows[i].exists /\ pub.rows[i].is_published /\ pub.rows[i].publish_at > pub.madeAt

\* ---- the classes of the program, read after the fact

\* The fields of a model: its own and those of the models it inherits from.
AllFields(c) ==
    UNION { { classes[d].fields[i] : i \in DOMAIN classes[d].fields } :
            d \in { classes[c].mro[i] : i \in DOMAIN classes[c].mro } }

HasCopy(c, n, behavior, f) ==
    \E x \in AllFields(c) : x.name = n /\ x.behavior = behavior /\ x.declared = f

HasOwnCopy(c, n, behavior, f) ==
    \E i \in DOMAIN classes[c].fields :
        LET x == classes[c].fields[i]
        IN x.name = n /\ x.behavior = behavior /\ x.declared = f

\* getattr(getattr(cls, behavior), f), NoAttr when either is missing.
SettingOf(c, behavior, f) ==
    LET s == class_setting(classes, c, behavior)
    IN IF s = 0 THEN NoAttr ELSE obj_getattr(objs, s, f)

\* The name the settings of model c give to field f of a behavior.
NameFor(c, behavior, f) ==
    IF SettingOf(c, behavior, f) = NoAttr THEN f ELSE SettingOf(c, behavior, f)

Models == { c \in UserClasses : classes[c].meta /\ ~classes[c].abstract /\ ~classes[c].proxy }

\* The declared fields of the behaviors in the mro of c: <<behavior id, field>>.
DeclaredFor(c) ==
    { <<p, f>> \in (DOMAIN classes) \X { FieldOrder[i] : i \in DOMAIN FieldOrder } :
        InSeq(p, classes[c].mro) /\ classes[p].meta /\ f \in DOMAIN classes[p].declared_fields }

\* The model has the name n from somewhere else than the field f of the
\* behavior: a class of its mro binds it, or its body does, or another field
\* added to it bound it.
NameTakenElsewhere(c, n, behavior, f) ==
    \/ \E i \in DOMAIN classes[c].mro :
          classes[c].mro[i] # c /\ n \in dict_names(classes[classes[c].mro[i]])
    \/ n \in classes[c].body.attrs
    \/ \E i \in DOMAIN classes[c].fields :
          LET x == classes[c].fields[i]
          IN x.name = n /\ x.kind = "descriptor" /\ <<x.behavior, x.declared>> # <<behavior, f>>

\* C1 as claimed: every field of every behavior of a model is on the model
\* under the name its settings give it, and not under its declared name when
\* the two differ.
C1_EveryFieldUnderItsName ==
    \A c \in Models : \A d \in DeclaredFor(c) :
        LET behavior == classes[d[1]].name
            n == NameFor(c, behavior, d[2])
        IN /\ HasCopy(c, n, behavior, d[2])
           /\ n # d[2] => ~HasCopy(c, d[2], behavior, d[2])

\* C1 as amended: the model has a copy of the field under the name its
\* settings give it unless the model has that name from somewhere else, and a
\* name that a class of its mro or its body binds gets no field; the class
\* statement never adds the field under its declared name when the settings
\* rename it (a model it inherits from may have it under that name).
C1_FieldUnderItsNameUnlessTaken ==
    \A c \in Models : \A d \in DeclaredFor(c) :
        LET behavior == classes[d[1]].name
            n == NameFor(c, behavior, d[2])
        IN /\ HasCopy(c, n, behavior, d[2]) \/ NameTakenElsewhere(c, n, behavior, d[2])
           /\ n # d[2] => ~HasOwnCopy(c, d[2], behavior, d[2])
           /\ ( \/ \E i \in DOMAIN classes[c].mro :
                      classes[c].mro[i] # c /\ n \in dict_names(classes[classes[c].mro[i]])
                \/ n \in classes[c].body.attrs )
              => ~HasOwnCopy(c, n, behavior, d[2])

\* A model of two behaviors that both declare created_at, one of them renamed.
C1_Witness ==
    \E c \in Models :
        /\ HasCopy(c, "made_at", "Timestampable", "created_at")
        /\ HasCopy(c, "updated_at", "Timestampable", "updated_at")
        /\ HasCopy(c, "created_at", "Alpha", "created_at")

\* ---- C8

Newest == Len(classes)

\* The behaviors merge_parent_settings finds for the newest class.
Found(c) ==
    { classes[p].name : p \in { p \in DOMAIN classes :
        p # c /\ InSeq(p, classes[c].mro) /\ class_hasattr(classes, p, classes[p].name) } }

\* The B attribute of each direct base that has one, in base order.
BaseSettings(c, behavior) ==
    SelectSeq([j \in DOMAIN classes[c].bases |->
                  class_setting(classes, classes[c].bases[j], behavior)],
              LAMBDA x : x # 0)

IsBodySettings(o, c, behavior) ==
    /\ objs[o].kind = "classic"
    /\ objs[o].name = behavior
    /\ objs[o].dict = classes[c].body.inner[behavior]

\* The attribute B of c is a class whose bases are the settings class of the
\* body, if any, and then ps.
MergedFrom(c, behavior, ps) ==
    /\ behavior \in DOMAIN classes[c].settings
    /\ LET s == classes[c].settings[behavior]
           bases == SelectSeq(objs[s].bases, LAMBDA x : x # ObjectId)
       IN /\ objs[s].kind = "new"
          /\ IF behavior \in DOMAIN classes[c].body.inner
             THEN /\ bases # <<>>
                  /\ IsBodySettings(bases[1], c, behavior)
                  /\ Tail(bases) = ps
             ELSE bases = ps

Written(c, behavior, f) ==
    behavior \in DOMAIN classes[c].body.inner /\ f \in DOMAIN classes[c].body.inner[behavior]

SettingNames == { FieldOrder[i] : i \in DOMAIN FieldOrder }

AbstractHaveSettings ==
    \A c \in DOMAIN classes :
        classes[c].meta /\ classes[c].abstract => class_hasattr(classes, c, classes[c].name)

MadeByStatement == res.outcome = "class" /\ classes[Newest].meta

QuerySetModels ==
    { c \in UserClasses : classes[c].meta /\ IsQuerySetManagerModel(classes, c) }

BaseQuerySets(c) ==
    SelectSeq([j \in DOMAIN classes[c].bases |-> class_queryset(classes, classes[c].bases[j])],
              LAMBDA x : x # 0)

IsBodyQuerySet(o, c) ==
    /\ objs[o].bases = <<classes[c].body.qsbase>>
    /\ objs[o].dict = [m \in classes[c].body.qs |-> classes[c].name]

\* c is class <name>(QuerySetManagerModel, <parent>) with class QuerySet(QuerySet)
\* and d is class <name>(<parent>) with class QuerySet(<parent>.QuerySet), of
\* the same methods.
TwoForms(c, d) ==
    /\ classes[c].meta
    /\ ~classes[d].meta
    /\ Len(classes[c].bases) = 2
    /\ classes[c].bases[1] = QuerySetManagerModelId
    /\ classes[d].bases = <<classes[c].bases[2]>>
    /\ classes[c].body.qsbase = DjangoQuerySetId
    /\ classes[d].body.qsbase = classes[classes[c].bases[2]].QuerySet
    /\ classes[c].body.qs = classes[d].body.qs

\* C6: the QuerySet of a class that inherits from QuerySetManagerModel is a new
\* class whose bases are the QuerySet of its body (if any) and then the
\* QuerySet of each direct base in base order; every method of any of them is
\* on it and the body's methods win; the two forms of the docstring give
\* every method the same definition.
C6_QuerySetsMerged ==
    /\ \A c \in QuerySetModels :
          LET q == classes[c].QuerySet
              own == classes[c].body.qsbase # NoQuerySet
          IN /\ q # 0
             /\ objs[q].kind = "new"
             /\ \A j \in DOMAIN classes[c].bases : q # class_queryset(classes, classes[c].bases[j])
             /\ IF own
                THEN /\ IsBodyQuerySet(objs[q].bases[1], c)
                     /\ Tail(objs[q].bases) = BaseQuerySets(c)
                ELSE objs[q].bases = BaseQuerySets(c)
             /\ \A m \in QuerySetMethods :
                   /\ (\E j \in DOMAIN objs[q].bases :
                          obj_getattr(objs, objs[q].bases[j], m) # NoAttr)
                      => obj_getattr(objs, q, m) # NoAttr
                   /\ (own /\ m \in classes[c].body.qs) => obj_getattr(objs, q, m) = classes[c].name
    /\ \A c, d \in UserClasses :
          TwoForms(c, d) =>
              \A m \in QuerySetMethods :
                  LET x == obj_getattr(objs, classes[c].QuerySet, m)
                      y == obj_getattr(objs, classes[d].QuerySet, m)
                  IN IF m \in classes[c].body.qs
                     THEN x = classes[c].name /\ y = classes[d].name
                     ELSE x = y

\* Both forms of the docstring, over Parent, with get_active from Parent.
C6_Witness ==
    \E c, d \in UserClasses :
        /\ TwoForms(c, d)
        /\ classes[c].bases[2] = ParentId
        /\ obj_getattr(objs, classes[c].QuerySet, "get_active") = "Parent"
        /\ obj_getattr(objs, classes[c].QuerySet, "get_inactive") = classes[c].name
        /\ obj_getattr(objs, classes[c].QuerySet, "filter") = "django"

\* ============================================================
\* specifications
\* ============================================================

\* The base check of MetaBehavior.__new__ on every list of bases.
InitBases == ChkInit /\ ValIdle /\ PubInit /\ MetaIdle
SpecBases == InitBases /\ [][NewOnBases]_vars

\* One instance of a model that inherits from Validation.
InitValidation == ChkIdle /\ ValInit /\ PubInit /\ MetaIdle
ValNext == SetAttrs \/ CallSave \/ CallCleanFields \/ CallValidationErrors \/ CallIsValid
SpecValidation == InitValidation /\ [][ValNext]_vars

\* The rows of a model that inherits from Publishable, and its two managers.
InitPublishable == ChkIdle /\ ValIdle /\ PubInit /\ MetaIdle
PubNext == Tick \/ SaveInstance \/ MakeQuery \/ Evaluate
SpecPublishable == InitPublishable /\ [][PubNext]_vars

\* Class statements over Behavior and Timestampable.
Init == ChkIdle /\ ValIdle /\ PubInit /\ MetaInit
SchemaNext == AbstractBehaviorStatement \/ ModelStatement
Spec == Init /\ [][SchemaNext]_vars

\* Class statements over QuerySetManagerModel and Parent.
QuerySetNext == QuerySetModelStatement \/ PlainChildStatement
SpecQuerySet == Init /\ [][QuerySetNext]_vars

====
